---- MODULE Spec2Model ----
(***************************************************************************)
(* Model of the command-runner MCP server: request validation             *)
(* (security.rs, tools/ls.rs, tools/git.rs), the timeout-bounded process  *)
(* executor (executor.rs), the ordered transform pipeline (request.rs)    *)
(* and the run_tool flow that composes them (server.rs).                  *)
(*                                                                         *)
(* A Rust String is a sequence of one-character strings; Option<T> is a   *)
(* sequence of length at most one.                                         *)
(***************************************************************************)
EXTENDS Integers, Sequences, FiniteSets, TLC

VARIABLES
    req,       \* the ToolRequest being handled
    pc,        \* position of the calling flow: idle, execute, recv, kill, join, transform, returned
    calls,     \* number of run_command calls made for the request
    child,     \* the subprocess: its command and its life cycle
    watcher,   \* the watcher thread of run_with_timeout and the wait result it holds
    chan,      \* the mpsc channel between the watcher and the caller
    execResult, \* the ExecutionResult of run_command, once it has returned
    output,    \* the String returned by the adapter's execute
    response,  \* the String returned by run_tool
    environ,   \* the value of BLOCKED_PATHS in the environment the server was started with, None when unset
    vcall,     \* a direct call of a validator: the function, its arguments, and its result once it has returned
    pid,       \* the process that holds the number child.id() returned, and the process a kill of that number reached
    lazy,      \* the LazyLock cell of BLOCKED_PATHS: the state of its Once, its value, the number of initialiser runs
    thread     \* the threads that call a validator concurrently: position, argument, the value read from the cell

vars == <<req, pc, calls, child, watcher, chan, execResult, output, response, environ, vcall, pid, lazy, thread>>

----------------------------------------------------------------------------
(* Option<T> *)

None == <<>>

Some(x) == <<x>>

IsSome(o) == o # <<>>

Unwrap(o) == o[1]

UnwrapOr(o, d) == IF o = <<>> THEN d ELSE o[1]

----------------------------------------------------------------------------
(* str primitives of the Rust standard library used by the source *)

Range(s) == {s[i] : i \in 1..Len(s)}

SeqsUpTo(S, n) == UNION {[1..k -> S] : k \in 0..n}

\* str::starts_with
StartsWith(s, p) == Len(s) >= Len(p) /\ SubSeq(s, 1, Len(p)) = p

\* str::contains(&str)
Contains(s, p) == \E i \in 1..(Len(s) - Len(p) + 1) : SubSeq(s, i, i + Len(p) - 1) = p

\* position of the first "\n" of s, 0 when there is none
FirstNewline(s) == IF \E i \in 1..Len(s) : s[i] = "\n" THEN CHOOSE i \in 1..Len(s) : s[i] = "\n" /\ \A j \in 1..(i - 1) : s[j] # "\n" ELSE 0

\* str::split_inclusive('\n'): pieces keep their terminator, no empty last piece
RECURSIVE SplitInclusive(_)
SplitInclusive(s) == IF s = <<>> THEN <<>> ELSE LET i == FirstNewline(s) IN IF i = 0 THEN <<s>> ELSE <<SubSeq(s, 1, i)>> \o SplitInclusive(SubSeq(s, i + 1, Len(s)))

\* the closure of str::lines: strip one "\n", then one "\r" before it
StripLineEnding(l) == IF l # <<>> /\ l[Len(l)] = "\n" THEN LET m == SubSeq(l, 1, Len(l) - 1) IN IF m # <<>> /\ m[Len(m)] = "\r" THEN SubSeq(m, 1, Len(m) - 1) ELSE m ELSE l

\* str::lines
Lines(s) == LET ps == SplitInclusive(s) IN [i \in 1..Len(ps) |-> StripLineEnding(ps[i])]

\* [&str]::join(sep)
RECURSIVE Join(_, _)
Join(ls, sep) == IF ls = <<>> THEN <<>> ELSE IF Len(ls) = 1 THEN ls[1] ELSE ls[1] \o sep \o Join(Tail(ls), sep)

\* the printable ASCII characters in code-point order, from 32 (space)
Ascii == <<" ", "!", "\"", "#", "$", "%", "&", "'", "(", ")", "*", "+", ",", "-", ".", "/", "0", "1", "2", "3", "4", "5", "6", "7", "8", "9", ":", ";", "<", "=", ">", "?", "@", "A", "B", "C", "D", "E", "F", "G", "H", "I", "J", "K", "L", "M", "N", "O", "P", "Q", "R", "S", "T", "U", "V", "W", "X", "Y", "Z", "[", "\\", "]", "^", "_", "BACKTICK", "a", "b", "c", "d", "e", "f", "g", "h", "i", "j", "k", "l", "m", "n", "o", "p", "q", "r", "s", "t", "u", "v", "w", "x", "y", "z", "{", "|", "}", "~">>

CodePoint(c) == IF c = "\n" THEN 10 ELSE IF c = "\r" THEN 13 ELSE IF c = "NUL" THEN 0 ELSE 31 + (CHOOSE i \in 1..Len(Ascii) : Ascii[i] = c)

\* Ord for str: byte-wise lexicographic
RECURSIVE StrLeq(_, _)
StrLeq(a, b) == IF a = <<>> THEN TRUE ELSE IF b = <<>> THEN FALSE ELSE IF a[1] = b[1] THEN StrLeq(Tail(a), Tail(b)) ELSE CodePoint(a[1]) < CodePoint(b[1])

RECURSIVE InsertSorted(_, _)
InsertSorted(l, sorted) == IF sorted = <<>> THEN <<l>> ELSE IF StrLeq(sorted[1], l) THEN <<sorted[1]>> \o InsertSorted(l, Tail(sorted)) ELSE <<l>> \o sorted

\* [&str]::sort
RECURSIVE SortLines(_)
SortLines(ls) == IF ls = <<>> THEN <<>> ELSE InsertSorted(ls[Len(ls)], SortLines(SubSeq(ls, 1, Len(ls) - 1)))

----------------------------------------------------------------------------
(* Validation engine, security.rs *)

SHELL_INJECTION_CHARS == {";", "|", "&", "$", "BACKTICK", "(", ")", "{", "}", "[", "]", "<", ">", "\n", "\r", "'", "\"", "\\", "*", "?", "!", "#", "NUL"}

SHELL_INJECTION_CHARS_DISPLAY == <<";", " ", "|", " ", "&", " ", "$", " ", "BACKTICK", " ", "(", " ", ")", " ", "{", " ", "}", " ", "[", " ", "]", " ", "<", " ", ">", " ", "'", " ", "\"", " ", "\\", " ", "*", " ", "?", " ", "!", " ", "#">>

TRANSFORM_HINT == <<"U", "s", "e", " ", "g", "r", "e", "p", "_", "p", "a", "t", "t", "e", "r", "n", ",", " ", "h", "e", "a", "d", ",", " ", "t", "a", "i", "l", ",", " ", "s", "o", "r", "t", ",", " ", "o", "r", " ", "u", "n", "i", "q", "u", "e", " ", "p", "a", "r", "a", "m", "e", "t", "e", "r", "s", " ", "t", "o", " ", "f", "i", "l", "t", "e", "r", "/", "t", "r", "a", "n", "s", "f", "o", "r", "m", " ", "o", "u", "t", "p", "u", "t", " ", "i", "n", "s", "t", "e", "a", "d", " ", "o", "f", " ", "s", "h", "e", "l", "l", " ", "o", "p", "e", "r", "a", "t", "o", "r", "s", ".">>

DANGEROUS_ENV_VARS == <<<<"L", "D", "_", "P", "R", "E", "L", "O", "A", "D">>, <<"L", "D", "_", "L", "I", "B", "R", "A", "R", "Y", "_", "P", "A", "T", "H">>, <<"D", "Y", "L", "D", "_", "I", "N", "S", "E", "R", "T", "_", "L", "I", "B", "R", "A", "R", "I", "E", "S">>, <<"D", "Y", "L", "D", "_", "L", "I", "B", "R", "A", "R", "Y", "_", "P", "A", "T", "H">>, <<"P", "A", "T", "H">>, <<"H", "O", "M", "E">>, <<"U", "S", "E", "R">>, <<"S", "H", "E", "L", "L">>, <<"I", "F", "S">>, <<"B", "A", "S", "H", "_", "E", "N", "V">>, <<"E", "N", "V">>, <<"C", "D", "P", "A", "T", "H">>, <<"G", "L", "O", "B", "I", "G", "N", "O", "R", "E">>, <<"B", "A", "S", "H", "_", "F", "U", "N", "C", "_">>, <<"P", "S", "1">>, <<"P", "S", "2">>, <<"P", "S", "4">>, <<"P", "R", "O", "M", "P", "T", "_", "C", "O", "M", "M", "A", "N", "D">>>>

\* Result<(), ValidationError>
Ok == [kind |-> "Ok", value |-> <<>>]

Err(kind, value) == [kind |-> kind, value |-> value]

\* impl Display for ValidationError
to_string(e) == CASE e.kind = "ShellInjection" -> <<"E", "r", "r", "o", "r", ":", " ", "'">> \o e.value \o <<"'", " ", "c", "o", "n", "t", "a", "i", "n", "s", " ", "i", "n", "v", "a", "l", "i", "d", " ", "c", "h", "a", "r", "a", "c", "t", "e", "r", "s", ".", " ", "F", "o", "r", "b", "i", "d", "d", "e", "n", " ", "c", "h", "a", "r", "a", "c", "t", "e", "r", "s", ":", " ">> \o SHELL_INJECTION_CHARS_DISPLAY \o <<".", " ">> \o TRANSFORM_HINT
                  [] e.kind = "BlockedPath" -> <<"E", "r", "r", "o", "r", ":", " ", "R", "e", "a", "d", "i", "n", "g", " ", "p", "a", "t", "h", " ", "'">> \o e.value \o <<"'", " ", "i", "s", " ", "n", "o", "t", " ", "a", "l", "l", "o", "w", "e", "d">>
                  [] e.kind = "FlagInjection" -> <<"E", "r", "r", "o", "r", ":", " ", "'">> \o e.value \o <<"'", " ", "l", "o", "o", "k", "s", " ", "l", "i", "k", "e", " ", "a", " ", "f", "l", "a", "g", " ", "(", "s", "t", "a", "r", "t", "s", " ", "w", "i", "t", "h", " ", "'", "-", "'", ")", ".", " ", "A", "r", "g", "u", "m", "e", "n", "t", "s", " ", "c", "a", "n", "n", "o", "t", " ", "s", "t", "a", "r", "t", " ", "w", "i", "t", "h", " ", "'", "-", "'", " ", "t", "o", " ", "p", "r", "e", "v", "e", "n", "t", " ", "f", "l", "a", "g", " ", "i", "n", "j", "e", "c", "t", "i", "o", "n", ".">>
                  [] e.kind = "DangerousEnvVar" -> <<"E", "r", "r", "o", "r", ":", " ", "S", "e", "t", "t", "i", "n", "g", " ", "e", "n", "v", "i", "r", "o", "n", "m", "e", "n", "t", " ", "v", "a", "r", "i", "a", "b", "l", "e", " ", "'">> \o e.value \o <<"'", " ", "i", "s", " ", "n", "o", "t", " ", "a", "l", "l", "o", "w", "e", "d", " ", "f", "o", "r", " ", "s", "e", "c", "u", "r", "i", "t", "y", " ", "r", "e", "a", "s", "o", "n", "s", ".">>
                  [] e.kind = "PathTraversal" -> <<"E", "r", "r", "o", "r", ":", " ", "P", "a", "t", "h", " ", "'">> \o e.value \o <<"'", " ", "c", "o", "n", "t", "a", "i", "n", "s", " ", "'", ".", ".", "'", ",", " ", "w", "h", "i", "c", "h", " ", "i", "s", " ", "n", "o", "t", " ", "a", "l", "l", "o", "w", "e", "d", " ", "f", "o", "r", " ", "s", "e", "c", "u", "r", "i", "t", "y", " ", "r", "e", "a", "s", "o", "n", "s", ".">>
                  [] e.kind = "RelativeWorkingDir" -> <<"E", "r", "r", "o", "r", ":", " ", "w", "o", "r", "k", "i", "n", "g", "_", "d", "i", "r", " ", "'">> \o e.value \o <<"'", " ", "m", "u", "s", "t", " ", "b", "e", " ", "a", "n", " ", "a", "b", "s", "o", "l", "u", "t", "e", " ", "p", "a", "t", "h", " ", "(", "s", "t", "a", "r", "t", "i", "n", "g", " ", "w", "i", "t", "h", " ", "'", "/", "'", ")", ".">>

\* a check that looks at the first character only
contains_shell_injection_first_char(s) == s # <<>> /\ s[1] \in SHELL_INJECTION_CHARS

contains_shell_injection(s) == \E i \in 1..Len(s) : s[i] \in SHELL_INJECTION_CHARS

validate_argument(arg) == IF contains_shell_injection(arg) THEN Err("ShellInjection", arg) ELSE Ok

\* a check that takes every leading '-' for a flag
is_flag_like_any_dash(s) == StartsWith(s, <<"-">>)

is_flag_like(s) == StartsWith(s, <<"-">>) /\ s # <<"-">> /\ s # <<"-", "-">>

validate_not_flag(arg) == IF is_flag_like(arg) THEN Err("FlagInjection", arg) ELSE Ok

\* a check that looks for ".." at the start of the path only
contains_traversal_leading(path) == StartsWith(path, <<".", ".">>)

contains_traversal(path) == Contains(path, <<".", ".">>)

validate_no_traversal(path) == IF contains_traversal(path) THEN Err("PathTraversal", path) ELSE Ok

validate_absolute_path(path) == IF ~StartsWith(path, <<"/">>) THEN Err("RelativeWorkingDir", path) ELSE Ok

\* char::to_uppercase on ASCII
ToUpperChar(c) == IF CodePoint(c) >= 97 /\ CodePoint(c) <= 122 THEN Ascii[CodePoint(c) - 32 - 31] ELSE c

to_uppercase(s) == [i \in 1..Len(s) |-> ToUpperChar(s[i])]

\* a comparison of the name as given, without upper-casing it
is_dangerous_env_var_exact_case(name) == \E i \in 1..Len(DANGEROUS_ENV_VARS) : name = DANGEROUS_ENV_VARS[i] \/ StartsWith(name, DANGEROUS_ENV_VARS[i])

is_dangerous_env_var(name) == LET upper == to_uppercase(name) IN \E i \in 1..Len(DANGEROUS_ENV_VARS) : upper = DANGEROUS_ENV_VARS[i] \/ StartsWith(upper, DANGEROUS_ENV_VARS[i])

validate_env_var(name, value) == IF is_dangerous_env_var(name) THEN Err("DangerousEnvVar", name) ELSE IF contains_shell_injection(name) THEN Err("ShellInjection", name) ELSE IF contains_shell_injection(value) THEN Err("ShellInjection", value) ELSE Ok

----------------------------------------------------------------------------
(* The file system and process environment the validators consult.  A     *)
(* directory or symlink is named by its sequence of components.           *)

FsDirs == {<<>>, <<<<"w">>>>, <<<<"w">>, <<"s">>>>, <<<<"b">>>>, <<<<"b">>, <<"x">>>>, <<<<"b">>, <<"s">>>>, <<<<"b", "2">>>>, <<<<"b", "2">>, <<"x">>>>}

\* /w/l is a symbolic link to /b
FsSymlinks == (<<<<"w">>, <<"l">>>> :> <<<<"b">>>>)

\* std::env::current_dir()
CurrentDir == Some(<<"/", "w">>)

\* std::env::var("BLOCKED_PATHS").unwrap_or_default()
BlockedPathsVar == UnwrapOr(environ, <<>>)

\* str::split(sep) for a one-character separator
RECURSIVE Split(_, _)
Split(s, sep) == IF \E i \in 1..Len(s) : s[i] = sep THEN LET i == CHOOSE i \in 1..Len(s) : s[i] = sep /\ \A j \in 1..(i - 1) : s[j] # sep IN <<SubSeq(s, 1, i - 1)>> \o Split(SubSeq(s, i + 1, Len(s)), sep) ELSE <<s>>

Whitespace == {" ", "\t", "\n", "\r"}

\* str::trim
RECURSIVE Trim(_)
Trim(s) == IF s # <<>> /\ s[1] \in Whitespace THEN Trim(Tail(s)) ELSE IF s # <<>> /\ s[Len(s)] \in Whitespace THEN Trim(SubSeq(s, 1, Len(s) - 1)) ELSE s

SelectNonEmpty(ss) == SelectSeq(ss, LAMBDA x : x # <<>>)

\* the LazyLock initialiser: split on ';', drop empty pieces, trim
BLOCKED_PATHS == LET pieces == SelectNonEmpty(Split(BlockedPathsVar, ";")) IN [i \in 1..Len(pieces) |-> Trim(pieces[i])]

\* Path::join / PathBuf::push
PathJoin(base, rel) == IF StartsWith(rel, <<"/">>) THEN rel ELSE IF base # <<>> /\ base[Len(base)] = "/" THEN base \o rel ELSE base \o <<"/">> \o rel

\* the normal components of an absolute path: empty and "." components are dropped
Components(p) == SelectSeq(Split(p, "/"), LAMBDA c : c # <<>> /\ c # <<".">>)

\* walk the components from a canonical directory, following symlinks; None when an entry does not exist
RECURSIVE Walk(_, _)
Walk(comps, cur) == IF comps = <<>> THEN Some(cur) ELSE LET c == comps[1] nxt == Append(cur, c) IN IF c = <<".", ".">> THEN Walk(Tail(comps), IF cur = <<>> THEN cur ELSE SubSeq(cur, 1, Len(cur) - 1)) ELSE IF nxt \in DOMAIN FsSymlinks THEN Walk(Tail(comps), FsSymlinks[nxt]) ELSE IF nxt \in FsDirs THEN Walk(Tail(comps), nxt) ELSE None

RECURSIVE PathString(_)
PathString(comps) == IF comps = <<>> THEN <<>> ELSE <<"/">> \o comps[1] \o PathString(Tail(comps))

\* Path::canonicalize of an absolute path: Some(canonical path) or None for an error
Canonicalize(p) == LET r == Walk(Components(p), <<>>) IN IF r = None THEN None ELSE IF Unwrap(r) = <<>> THEN Some(<<"/">>) ELSE Some(PathString(Unwrap(r)))

\* a loop that takes every entry the path starts with, separator or not
FirstBlockedByPrefix(path_str, blocked_paths) == LET hits == {i \in 1..Len(blocked_paths) : StartsWith(path_str, blocked_paths[i])} IN IF hits = {} THEN None ELSE Some(blocked_paths[CHOOSE i \in hits : \A j \in hits : i <= j])

\* the loop over the blocked entries: the first entry the path equals or is under
FirstBlocked(path_str, blocked_paths) == LET hits == {i \in 1..Len(blocked_paths) : path_str = blocked_paths[i] \/ StartsWith(path_str, blocked_paths[i] \o <<"/">>)} IN IF hits = {} THEN None ELSE Some(blocked_paths[CHOOSE i \in hits : \A j \in hits : i <= j])

find_blocked_path_impl(path, blocked_paths) == IF ~StartsWith(path, <<"/">>) /\ CurrentDir = None THEN None ELSE LET resolved_path == IF StartsWith(path, <<"/">>) THEN path ELSE PathJoin(Unwrap(CurrentDir), path) canonical_path == UnwrapOr(Canonicalize(resolved_path), resolved_path) IN FirstBlocked(canonical_path, blocked_paths)

find_blocked_path(path) == find_blocked_path_impl(path, BLOCKED_PATHS)

validate_path(path) == LET blocked == find_blocked_path(path) IN IF IsSome(blocked) THEN Err("BlockedPath", Unwrap(blocked)) ELSE Ok

\* the check without its test of working_dir
validate_path_with_working_dir_unchecked(path, working_dir, blocked_paths) == LET resolved == IF StartsWith(path, <<"/">>) THEN path ELSE PathJoin(working_dir, path) canonical == UnwrapOr(Canonicalize(resolved), resolved) blocked == FirstBlocked(canonical, blocked_paths) IN IF IsSome(blocked) THEN Err("BlockedPath", Unwrap(blocked)) ELSE Ok

validate_path_with_working_dir_impl(path, working_dir, blocked_paths) == IF ~StartsWith(working_dir, <<"/">>) THEN Err("RelativeWorkingDir", working_dir) ELSE LET resolved == IF StartsWith(path, <<"/">>) THEN path ELSE PathJoin(working_dir, path) canonical == UnwrapOr(Canonicalize(resolved), resolved) blocked == FirstBlocked(canonical, blocked_paths) IN IF IsSome(blocked) THEN Err("BlockedPath", Unwrap(blocked)) ELSE Ok

validate_path_with_working_dir(path, working_dir) == validate_path_with_working_dir_impl(path, working_dir, BLOCKED_PATHS)

----------------------------------------------------------------------------
(* Tool adapters, tools/ls.rs and tools/git.rs *)

ALLOWED_GIT_SUBCOMMANDS == <<<<"s", "t", "a", "t", "u", "s">>, <<"a", "d", "d">>, <<"c", "o", "m", "m", "i", "t">>, <<"c", "h", "e", "c", "k", "o", "u", "t">>>>

\* the last error of a sequence of results, Ok when there is none
RECURSIVE LastErr(_)
LastErr(results) == IF results = <<>> THEN Ok ELSE IF results[Len(results)] # Ok THEN results[Len(results)] ELSE LastErr(SubSeq(results, 1, Len(results) - 1))

\* the first error of a sequence of results, Ok when there is none
RECURSIVE FirstErr(_)
FirstErr(results) == IF results = <<>> THEN Ok ELSE IF results[1] # Ok THEN results[1] ELSE FirstErr(Tail(results))

\* a validation that looks for a flag before it looks for blacklisted characters
validate_ls_flag_first(inner) == FirstErr(<<validate_not_flag(inner.path), validate_argument(inner.path), validate_no_traversal(inner.path), validate_path(inner.path)>>)

\* impl Validatable for LsRequest
validate_ls(inner) == FirstErr(<<validate_argument(inner.path), validate_not_flag(inner.path), validate_no_traversal(inner.path), validate_path(inner.path)>>)

\* a validation of the arguments that lets every subcommand through
validate_git_any_subcommand(inner) == FirstErr(<<validate_argument(inner.subcommand)>> \o [i \in 1..Len(inner.args) |-> validate_argument(inner.args[i])])

\* impl Validatable for GitRequest
validate_git(inner) == IF inner.subcommand \notin Range(ALLOWED_GIT_SUBCOMMANDS) THEN Err("ShellInjection", <<"S", "u", "b", "c", "o", "m", "m", "a", "n", "d", " ", "'">> \o inner.subcommand \o <<"'", " ", "i", "s", " ", "n", "o", "t", " ", "a", "l", "l", "o", "w", "e", "d", ".", " ", "A", "l", "l", "o", "w", "e", "d", " ", "s", "u", "b", "c", "o", "m", "m", "a", "n", "d", "s", ":", " ">> \o Join(ALLOWED_GIT_SUBCOMMANDS, <<",", " ">>)) ELSE FirstErr(<<validate_argument(inner.subcommand)>> \o [i \in 1..Len(inner.args) |-> validate_argument(inner.args[i])])

\* impl Validatable for ToolRequest<T>: only the inner request is validated
validate(r) == IF r.inner.tool = "ls" THEN validate_ls(r.inner) ELSE validate_git(r.inner)

----------------------------------------------------------------------------
(* The regex crate, restricted to the patterns of GrepPatterns: a pattern *)
(* of literal characters matches a line that contains it; a "[" that no   *)
(* later "]" closes does not compile.                                      *)

RegexCompiles(pattern) == \A i \in 1..Len(pattern) : pattern[i] = "[" => \E j \in (i + 1)..Len(pattern) : pattern[j] = "]"

\* Display of regex::Error for an unclosed character class
RegexErrorText(pattern) == <<"r", "e", "g", "e", "x", " ", "p", "a", "r", "s", "e", " ", "e", "r", "r", "o", "r", ":", "\n", " ", " ", " ", " ">> \o pattern \o <<"\n", " ", " ", " ", " ", "^", "\n", "e", "r", "r", "o", "r", ":", " ", "u", "n", "c", "l", "o", "s", "e", "d", " ", "c", "h", "a", "r", "a", "c", "t", "e", "r", " ", "c", "l", "a", "s", "s">>

is_match(pattern, line) == Contains(line, pattern)

----------------------------------------------------------------------------
(* Transform pipeline, request.rs *)

DEFAULT_TRANSFORM_ORDER == <<"Grep", "Sort", "Unique", "Head", "Tail">>

Transformation == {"Grep", "Sort", "Unique", "Head", "Tail"}

RECURSIVE FilterLines(_, _, _)
FilterLines(ls, pattern, invert) == IF ls = <<>> THEN <<>> ELSE LET matches == is_match(pattern, ls[1]) keep == IF invert THEN ~matches ELSE matches IN (IF keep THEN <<ls[1]>> ELSE <<>>) \o FilterLines(Tail(ls), pattern, invert)

apply_grep(r, out) == IF IsSome(r.grep_pattern) THEN LET pattern == Unwrap(r.grep_pattern) IN IF ~RegexCompiles(pattern) THEN <<"E", "r", "r", "o", "r", ":", " ", "I", "n", "v", "a", "l", "i", "d", " ", "g", "r", "e", "p", " ", "p", "a", "t", "t", "e", "r", "n", ":", " ">> \o RegexErrorText(pattern) ELSE Join(FilterLines(Lines(out), pattern, UnwrapOr(r.invert_grep, FALSE)), <<"\n">>) ELSE out

apply_sort(r, out) == IF UnwrapOr(r.sort, FALSE) THEN Join(SortLines(Lines(out)), <<"\n">>) ELSE out

RECURSIVE DedupAdjacent(_, _)
DedupAdjacent(ls, prev) == IF ls = <<>> THEN <<>> ELSE IF prev # Some(ls[1]) THEN <<ls[1]>> \o DedupAdjacent(Tail(ls), Some(ls[1])) ELSE DedupAdjacent(Tail(ls), prev)

\* a dedup that keeps the first occurrence of every line of the whole text
RECURSIVE DedupGlobal(_, _)
DedupGlobal(ls, seen) == IF ls = <<>> THEN <<>> ELSE IF ls[1] \in seen THEN DedupGlobal(Tail(ls), seen) ELSE <<ls[1]>> \o DedupGlobal(Tail(ls), seen \cup {ls[1]})

apply_unique_global(r, out) == IF UnwrapOr(r.unique, FALSE) THEN Join(DedupGlobal(Lines(out), {}), <<"\n">>) ELSE out

apply_unique(r, out) == IF UnwrapOr(r.unique, FALSE) THEN Join(DedupAdjacent(Lines(out), None), <<"\n">>) ELSE out

Take(ls, n) == SubSeq(ls, 1, IF n < Len(ls) THEN n ELSE Len(ls))

apply_head(r, out) == IF IsSome(r.head) THEN Join(Take(Lines(out), Unwrap(r.head)), <<"\n">>) ELSE out

\* a tail that counts from the start of the text
apply_tail_from_start(r, out) == IF IsSome(r.tail) THEN LET lines == Lines(out) total == Len(lines) n == Unwrap(r.tail) IN IF n >= total THEN out ELSE Join(SubSeq(lines, 1, n), <<"\n">>) ELSE out

apply_tail(r, out) == IF IsSome(r.tail) THEN LET lines == Lines(out) total == Len(lines) n == Unwrap(r.tail) IN IF n >= total THEN out ELSE Join(SubSeq(lines, total - n + 1, total), <<"\n">>) ELSE out

ApplyStage(r, transform, result) == CASE transform = "Grep" -> apply_grep(r, result) [] transform = "Sort" -> apply_sort(r, result) [] transform = "Unique" -> apply_unique(r, result) [] transform = "Head" -> apply_head(r, result) [] transform = "Tail" -> apply_tail(r, result)

\* a plan that ignores transform_order
TransformOrderAlwaysDefault(r) == DEFAULT_TRANSFORM_ORDER

\* the plan of a request
TransformOrder(r) == UnwrapOr(r.transform_order, DEFAULT_TRANSFORM_ORDER)

\* the loop applied to the stages from the last to the first
RECURSIVE RunStagesReversed(_, _, _)
RunStagesReversed(r, order, result) == IF order = <<>> THEN result ELSE LET next == ApplyStage(r, order[Len(order)], result) IN IF StartsWith(next, <<"E", "r", "r", "o", "r", ":">>) THEN next ELSE RunStagesReversed(r, SubSeq(order, 1, Len(order) - 1), next)

\* the loop without the check that stops on an error
RECURSIVE RunStagesNoStop(_, _, _)
RunStagesNoStop(r, order, result) == IF order = <<>> THEN result ELSE RunStagesNoStop(r, Tail(order), ApplyStage(r, order[1], result))

\* the loop of transform_output over the stages still to run
RECURSIVE RunStages(_, _, _)
RunStages(r, order, result) == IF order = <<>> THEN result ELSE LET next == ApplyStage(r, order[1], result) IN IF StartsWith(next, <<"E", "r", "r", "o", "r", ":">>) THEN next ELSE RunStages(r, Tail(order), next)

transform_output(r, out) == RunStages(r, TransformOrder(r), out)

----------------------------------------------------------------------------
(* Inputs of the pipeline specification *)

MaxLines == 1

MaxCount == 1

MaxPlanLen == 2

LinePool == {<<"b", "1">>, <<"a">>, <<"E", "r", "r", "o", "r", ":">>}

\* texts of the unit tests of request.rs
TestTexts == {<<"l", "i", "n", "e", "1", "\n", "l", "i", "n", "e", "2", "\n", "l", "i", "n", "e", "3", "\n", "l", "i", "n", "e", "4">>, <<"a", "\n", "a", "\n", "b", "\n", "b", "\n", "b", "\n", "a">>, <<"c", "h", "e", "r", "r", "y", "\n", "a", "p", "p", "l", "e", "\n", "b", "a", "n", "a", "n", "a">>, <<"b", "\n", "a", "\n", "b", "\n", "a", "\n", "c">>, <<"l", "i", "n", "e", "3", "\n", "l", "i", "n", "e", "1", "\n", "l", "i", "n", "e", "2">>, <<"d", "e", "l", "t", "a", "\n", "c", "h", "a", "r", "l", "i", "e", "\n", "b", "r", "a", "v", "o", "\n", "a", "l", "p", "h", "a">>}

Texts == {Join(ls, <<"\n">>) \o t : ls \in SeqsUpTo(LinePool, MaxLines), t \in {<<>>, <<"\n">>}} \cup TestTexts

GrepPatterns == {<<"1">>, <<"[", "1">>}

Counts == {None} \cup {Some(n) : n \in 0..MaxCount}

Flags == {None, Some(TRUE)}

Plans == {None} \cup {Some(p) : p \in SeqsUpTo(Transformation, MaxPlanLen)}

\* make_request_with_order of the tests: an ls request for "." with only the pipeline fields set
make_request_with_order(g, i, h, t, s, u, o) == [grep_pattern |-> g, invert_grep |-> i, head |-> h, tail |-> t, sort |-> s, unique |-> u, timeout_ms |-> None, working_dir |-> None, env |-> None, transform_order |-> o, inner |-> [tool |-> "ls", path |-> <<".">>]]

\* requests of the unit tests of request.rs, and one with every flag set to false
TestRequests == {make_request_with_order(Some(<<"1">>), None, Some(2), None, None, None, Some(<<"Head", "Grep">>)),
                 make_request_with_order(None, None, None, Some(3), Some(TRUE), None, Some(<<"Tail", "Sort">>)),
                 make_request_with_order(Some(<<"1">>), None, Some(2), None, Some(TRUE), None, Some(<<"Head">>)),
                 make_request_with_order(None, None, Some(3), Some(2), None, None, None),
                 make_request_with_order(None, None, None, Some(2), None, None, None),
                 make_request_with_order(None, None, None, None, Some(TRUE), Some(TRUE), None),
                 make_request_with_order(Some(<<"1">>), Some(FALSE), Some(2), None, Some(FALSE), Some(FALSE), Some(<<"Grep", "Head">>))}

PipelineRequests == {make_request_with_order(g, i, h, t, s, u, o) : g \in {None} \cup {Some(p) : p \in GrepPatterns}, i \in Flags, h \in Counts, t \in Counts, s \in Flags, u \in Flags, o \in Plans} \cup TestRequests

----------------------------------------------------------------------------
(* Execution context, request.rs *)

DEFAULT_TIMEOUT_MS == 180000

\* a context that carries a timeout only when the request states one
execution_context_untimed(r) == [timeout |-> r.timeout_ms, working_dir |-> r.working_dir, env |-> r.env]

execution_context(r) == [timeout |-> Some(UnwrapOr(r.timeout_ms, DEFAULT_TIMEOUT_MS)), working_dir |-> r.working_dir, env |-> r.env]

----------------------------------------------------------------------------
(* Process executor, executor.rs *)

NoChild == [state |-> "none", program |-> <<>>, args |-> <<>>, dir |-> None, env |-> {}, exit |-> None]

NoWatcher == [state |-> "none", result |-> None]

\* no child has been spawned: its number is nobody's yet and no signal was sent
NoPid == [holder |-> "none", signalled |-> "none"]

\* what a child can do on its own: exit status, standard output, standard error
ChildOutcomes == {[code |-> 0, stdout |-> <<"f", "1", "\n">>, stderr |-> <<>>], [code |-> 1, stdout |-> <<>>, stderr |-> <<"e", "1", "\n">>], [code |-> 1, stdout |-> <<"o", "1", "\n">>, stderr |-> <<>>]}

\* the end of a child that received SIGKILL
KilledOutcome == [code |-> 137, stdout |-> <<>>, stderr |-> <<>>]

\* Display of the io::Error of a failed spawn or wait
IoErrorText == <<"N", "o", " ", "s", "u", "c", "h", " ", "f", "i", "l", "e", " ", "o", "r", " ", "d", "i", "r", "e", "c", "t", "o", "r", "y", " ", "(", "o", "s", " ", "e", "r", "r", "o", "r", " ", "2", ")">>

Success(text) == [tag |-> "Success", text |-> text]

Error(text) == [tag |-> "Error", text |-> text]

Timeout == [tag |-> "Timeout", text |-> <<>>]

output_to_result(out) == IF out.code = 0 THEN Success(out.stdout) ELSE IF out.stderr = <<>> THEN Error(<<"E", "r", "r", "o", "r", ":", " ">> \o out.stdout) ELSE Error(<<"E", "r", "r", "o", "r", ":", " ">> \o out.stderr)

\* ExecutionResult::into_string
into_string(res) == IF res.tag = "Timeout" THEN <<"E", "r", "r", "o", "r", ":", " ", "C", "o", "m", "m", "a", "n", "d", " ", "t", "i", "m", "e", "d", " ", "o", "u", "t">> ELSE res.text

\* Command::output pipes standard output and error and collects them
PipedOutput(exit) == [code |-> exit.code, stdout |-> exit.stdout, stderr |-> exit.stderr]

\* Command::spawn leaves standard output and error inherited, so
\* Child::wait_with_output has no pipe to read and collects nothing
InheritedOutput(exit) == [code |-> exit.code, stdout |-> <<>>, stderr |-> <<>>]

\* Command::current_dir with a directory that exists (a relative one is taken from the current directory)
DirExists(dir) == IF StartsWith(dir, <<"/">>) THEN IsSome(Canonicalize(dir)) ELSE IsSome(CurrentDir) /\ IsSome(Canonicalize(PathJoin(Unwrap(CurrentDir), dir)))

\* spawning can always fail (program missing, no permission) and must fail in a missing directory
SpawnOutcomes(ctx) == IF IsSome(ctx.working_dir) /\ ~DirExists(Unwrap(ctx.working_dir)) THEN {FALSE} ELSE BOOLEAN

\* run_command: the context's directory and variables are set on the command
ConfiguredChild(cmd, ctx) == [state |-> "running", program |-> cmd.program, args |-> cmd.args, dir |-> ctx.working_dir, env |-> UnwrapOr(ctx.env, {}), exit |-> None]

\* run_command up to the point where the caller blocks or returns
RunCommand(cmd, ctx) == /\ calls' = calls + 1
                        /\ \E spawned \in SpawnOutcomes(ctx) :
                             IF IsSome(ctx.timeout)
                             THEN IF spawned
                                  THEN /\ child' = ConfiguredChild(cmd, ctx)
                                       /\ watcher' = [state |-> "waiting", result |-> None]
                                       /\ pid' = [holder |-> "child", signalled |-> "none"]
                                       /\ pc' = "recv"
                                       /\ UNCHANGED <<chan, execResult, output>>
                                  ELSE /\ execResult' = Some(Error(<<"F", "a", "i", "l", "e", "d", " ", "t", "o", " ", "s", "p", "a", "w", "n", " ", "c", "o", "m", "m", "a", "n", "d", ":", " ">> \o IoErrorText))
                                       /\ output' = into_string(Unwrap(execResult'))
                                       /\ pc' = "transform"
                                       /\ UNCHANGED <<child, watcher, chan, pid>>
                             ELSE IF spawned
                                  THEN \E o \in ChildOutcomes :
                                         /\ child' = [ConfiguredChild(cmd, ctx) EXCEPT !.state = "reaped", !.exit = Some(o)]
                                         /\ execResult' = Some(output_to_result(PipedOutput(o)))
                                         /\ output' = into_string(Unwrap(execResult'))
                                         /\ pid' = [holder |-> "free", signalled |-> "none"]
                                         /\ pc' = "transform"
                                         /\ UNCHANGED <<watcher, chan>>
                                  ELSE /\ execResult' = Some(Error(<<"F", "a", "i", "l", "e", "d", " ", "t", "o", " ", "e", "x", "e", "c", "u", "t", "e", " ", "c", "o", "m", "m", "a", "n", "d", ":", " ">> \o IoErrorText))
                                       /\ output' = into_string(Unwrap(execResult'))
                                       /\ pc' = "transform"
                                       /\ UNCHANGED <<child, watcher, chan, pid>>

\* the child exits on its own
ChildExit == /\ child.state = "running"
             /\ \E o \in ChildOutcomes : child' = [child EXCEPT !.state = "exited", !.exit = Some(o)]
             /\ UNCHANGED <<req, pc, calls, watcher, chan, execResult, output, response>>
             /\ UNCHANGED <<environ, vcall, pid, lazy, thread>>

\* the watcher's child.wait_with_output() returns: the child is reaped,
\* and with that its process number is free for the system to give out again
WatcherWait == /\ watcher.state = "waiting"
               /\ child.state = "exited"
               /\ child' = [child EXCEPT !.state = "reaped"]
               /\ pid' = [pid EXCEPT !.holder = "free"]
               /\ \E ok \in BOOLEAN : watcher' = [state |-> "holding", result |-> Some([ok |-> ok, out |-> InheritedOutput(Unwrap(child.exit))])]
               /\ UNCHANGED <<req, pc, calls, chan, execResult, output, response>>
               /\ UNCHANGED <<environ, vcall, lazy, thread>>

\* the watcher's tx.send(result)
WatcherSend == /\ watcher.state = "holding"
               /\ chan' = watcher.result
               /\ watcher' = [watcher EXCEPT !.state = "sent"]
               /\ UNCHANGED <<req, pc, calls, child, execResult, output, response>>
               /\ UNCHANGED <<environ, vcall, pid, lazy, thread>>

\* the watcher's closure returns and the thread ends
WatcherEnd == /\ watcher.state = "sent"
              /\ watcher' = [watcher EXCEPT !.state = "done"]
              /\ UNCHANGED <<req, pc, calls, child, chan, execResult, output, response>>
              /\ UNCHANGED <<environ, vcall, pid, lazy, thread>>

\* a process started elsewhere (another invocation's child, the kill helper,
\* any program of the machine) is given the number the reaped child had
PidReused == /\ pid.holder = "free"
             /\ pid' = [pid EXCEPT !.holder = "other"]
             /\ UNCHANGED <<req, pc, calls, child, watcher, chan, execResult, output, response>>
             /\ UNCHANGED <<environ, vcall, lazy, thread>>

\* a join that does not wait for the thread
JoinedWithoutWaiting(w) == TRUE

\* JoinHandle::join returns once the thread has ended
Joined(w) == w.state = "done"

\* rx.recv_timeout returns the watcher's message: join, then classify
RecvMessage == /\ pc = "recv"
               /\ chan # None
               /\ Joined(watcher)
               /\ execResult' = Some(IF Unwrap(chan).ok THEN output_to_result(Unwrap(chan).out) ELSE Error(<<"C", "o", "m", "m", "a", "n", "d", " ", "f", "a", "i", "l", "e", "d", ":", " ">> \o IoErrorText))
               /\ output' = into_string(Unwrap(execResult'))
               /\ pc' = "transform"
               /\ UNCHANGED <<req, calls, child, watcher, chan, response>>
               /\ UNCHANGED <<environ, vcall, pid, lazy, thread>>

\* rx.recv_timeout returns Err(Timeout): the deadline passed with no message
RecvTimeout == /\ pc = "recv"
               /\ chan = None
               /\ pc' = "kill"
               /\ UNCHANGED <<req, calls, child, watcher, chan, execResult, output, response>>
               /\ UNCHANGED <<environ, vcall, pid, lazy, thread>>

\* kill_process(child_id): the outcome of the kill helper is ignored; the
\* signal goes to the process that holds the number at that moment, ends a
\* running child, and is not delivered when the helper fails or the number
\* is nobody's
KillProcess == /\ pc = "kill"
               /\ \E delivered \in BOOLEAN :
                    /\ child' = IF delivered /\ child.state = "running" THEN [child EXCEPT !.state = "exited", !.exit = Some(KilledOutcome)] ELSE child
                    /\ pid' = IF delivered /\ pid.holder \in {"child", "other"} THEN [pid EXCEPT !.signalled = pid.holder] ELSE pid
               /\ pc' = "join"
               /\ UNCHANGED <<req, calls, watcher, chan, execResult, output, response>>
               /\ UNCHANGED <<environ, vcall, lazy, thread>>

\* handle.join() on the timeout path, then Timeout
JoinWatcher == /\ pc = "join"
               /\ Joined(watcher)
               /\ execResult' = Some(Timeout)
               /\ output' = into_string(Timeout)
               /\ pc' = "transform"
               /\ UNCHANGED <<req, calls, child, watcher, chan, response>>
               /\ UNCHANGED <<environ, vcall, pid, lazy, thread>>

----------------------------------------------------------------------------
(* Adapters' execute, tools/ls.rs and tools/git.rs *)

LsCommand(inner) == [program |-> <<"l", "s">>, args |-> <<<<"-", "a", "l">>, inner.path>>]

GitCommand(inner) == [program |-> <<"g", "i", "t">>, args |-> <<inner.subcommand>> \o inner.args]

\* an execute that goes on to the command without the working-directory check
CheckWorkingDirSkipped(inner, ctx) == Ok

\* lines 35-39: the path is validated again, together with the context's working directory
CheckWorkingDir(inner, ctx) == IF IsSome(ctx.working_dir) THEN validate_path_with_working_dir(inner.path, Unwrap(ctx.working_dir)) ELSE Ok

\* ls::execute: the working-directory check, then the command
ExecuteLs == /\ pc = "execute"
             /\ req.inner.tool = "ls"
             /\ LET ctx == execution_context(req)
                    check == CheckWorkingDir(req.inner, ctx)
                IN IF check # Ok
                   THEN /\ output' = <<"E", "r", "r", "o", "r", ":", " ">> \o to_string(check)
                        /\ pc' = "transform"
                        /\ UNCHANGED <<calls, child, watcher, chan, execResult, pid>>
                   ELSE RunCommand(LsCommand(req.inner), ctx)
             /\ UNCHANGED <<req, response>>
             /\ UNCHANGED <<environ, vcall, lazy, thread>>

\* git::execute
ExecuteGit == /\ pc = "execute"
              /\ req.inner.tool = "git"
              /\ RunCommand(GitCommand(req.inner), execution_context(req))
              /\ UNCHANGED <<req, response>>
              /\ UNCHANGED <<environ, vcall, lazy, thread>>

----------------------------------------------------------------------------
(* run_tool, server.rs *)

\* a request goes on to execute without having been validated
PassesUnchecked(r) == TRUE

\* line 38: only a request whose validate() is Ok goes on to execute
Passes(r) == validate(r) = Ok

\* lines 38-40: validate first, return the rendered error
RunTool(r) == /\ req' = r
              /\ IF Passes(r)
                 THEN /\ pc' = "execute"
                      /\ UNCHANGED response
                 ELSE /\ pc' = "returned"
                      /\ response' = to_string(validate(r))
              /\ UNCHANGED <<calls, child, watcher, chan, execResult, output>>
              /\ UNCHANGED <<environ, vcall, pid, lazy, thread>>

\* line 43: the text produced by execute goes through the pipeline and is returned
Transform == /\ pc = "transform"
             /\ response' = transform_output(req, output)
             /\ pc' = "returned"
             /\ UNCHANGED <<req, calls, child, watcher, chan, execResult, output>>
             /\ UNCHANGED <<environ, vcall, pid, lazy, thread>>

----------------------------------------------------------------------------
(* Requests of the tool specification *)

ToolPaths == {<<".">>, <<"/", "w">>, <<"s">>, <<"/", "b", "/", "x">>, <<"-", "l", "a">>, <<"/", "w", ";", "i", "d">>, <<"/", "w", "/", ".", ".", "/", "b">>}

ToolWorkingDirs == {None, Some(<<"/", "w">>), Some(<<"/", "b">>), Some(<<"s">>), Some(<<"/", "n">>)}

ToolEnvs == {None, Some({<<<<"F", "O", "O">>, <<"b", "a", "r">>>>}), Some({<<<<"L", "D", "_", "P", "R", "E", "L", "O", "A", "D">>, <<"/", "e", "v", "i", "l", "/", "l", "i", "b", ".", "s", "o">>>>})}

ToolTimeouts == {None, Some(100)}

GitSubcommands == {<<"s", "t", "a", "t", "u", "s">>, <<"c", "o", "m", "m", "i", "t">>, <<"p", "u", "s", "h">>, <<"S", "t", "a", "t", "u", "s">>, <<"s", "t", "a", "t", "u", "s", ";", " ", "e", "c", "h", "o", " ", "h", "e", "l", "l", "o">>}

GitArgs == {<<>>, <<<<"f">>>>, <<<<"-", "m">>, <<"f">>>>, <<<<"f">>, <<";", " ", "i", "d">>, <<"a", "|", "b">>>>}

ToolInners == {[tool |-> "ls", path |-> p] : p \in ToolPaths} \cup {[tool |-> "git", subcommand |-> c, args |-> a] : c \in GitSubcommands, a \in GitArgs}

\* the pipeline fields a tool request carries: none, each stage alone, a reordered plan, an empty plan
ToolPipelines == {make_request_with_order(None, None, None, None, None, None, None),
                  make_request_with_order(Some(<<"1">>), None, None, None, None, None, None),
                  make_request_with_order(Some(<<"1">>), Some(TRUE), None, None, None, None, None),
                  make_request_with_order(Some(<<"[", "1">>), None, None, None, None, None, None),
                  make_request_with_order(None, None, Some(0), None, None, None, None),
                  make_request_with_order(None, None, None, Some(0), None, None, Some(<<"Tail">>)),
                  make_request_with_order(None, None, Some(1), None, Some(TRUE), Some(TRUE), Some(<<"Sort", "Unique", "Head">>)),
                  make_request_with_order(Some(<<"1">>), None, Some(0), Some(0), Some(TRUE), Some(TRUE), Some(<<>>))}

ToolRequests == {[p EXCEPT !.timeout_ms = ms, !.working_dir = wd, !.env = e, !.inner = n] : p \in ToolPipelines, ms \in ToolTimeouts, wd \in ToolWorkingDirs, e \in ToolEnvs, n \in ToolInners}

----------------------------------------------------------------------------
(* Direct calls of the validators, as the unit tests of security.rs and   *)
(* tools/ls.rs make them *)

NoCall == [fn |-> "none", args |-> <<>>, returned |-> FALSE, ret |-> Ok]

\* a call about to be made
Pending(fn, args) == [fn |-> fn, args |-> args, returned |-> FALSE, ret |-> Ok]

MaxArgLen == 2

MaxWordLen == 3

\* every blacklisted character and some that are not
ArgAlphabet == SHELL_INJECTION_CHARS \cup {"a", "-", "/", ".", " "}

ArgStrings == SeqsUpTo(ArgAlphabet, MaxArgLen)

FlagStrings == SeqsUpTo({"-", "a", "l"}, MaxWordLen)

TraversalStrings == SeqsUpTo({".", "/", "a"}, MaxWordLen)

\* char::to_lowercase on ASCII
ToLowerChar(c) == IF CodePoint(c) >= 65 /\ CodePoint(c) <= 90 THEN Ascii[CodePoint(c) + 32 - 31] ELSE c

\* names of the tests, and every entry of the dangerous list as it is, in lower case, and with a letter after or before it
EnvNames == {<<"M", "Y", "_", "V", "A", "R">>, <<"F", "O", "O">>, <<"D", "E", "B", "U", "G">>, <<"V", "A", "R", ";", "r", "m">>, <<"B", "A", "S", "H", "_", "F", "U", "N", "C", "_", "f", "o", "o">>, <<>>}
            \cup {DANGEROUS_ENV_VARS[i] : i \in 1..Len(DANGEROUS_ENV_VARS)}
            \cup {[k \in 1..Len(DANGEROUS_ENV_VARS[i]) |-> ToLowerChar(DANGEROUS_ENV_VARS[i][k])] : i \in 1..Len(DANGEROUS_ENV_VARS)}
            \cup {DANGEROUS_ENV_VARS[i] \o <<"x">> : i \in 1..Len(DANGEROUS_ENV_VARS)}
            \cup {<<"X">> \o DANGEROUS_ENV_VARS[i] : i \in 1..Len(DANGEROUS_ENV_VARS)}
            \cup {<<"l", "d", "_", "p", "r", "e", "l", "o", "a", "d", ";">>, <<"F", "O", "O", "$">>}

EnvValues == {<<"s", "a", "f", "e", "_", "v", "a", "l", "u", "e">>, <<"/", "e", "v", "i", "l", "/", "l", "i", "b", ".", "s", "o">>, <<"$", "(", "w", "h", "o", "a", "m", "i", ")">>, <<>>}

\* paths given to the blocked-path checks: absolute, relative to the current directory /w, through the symlink /w/l, not existing
CheckedPaths == {<<"/", "b">>, <<"/", "b", "/", "x">>, <<"/", "b", "2">>, <<"/", "b", "2", "/", "x">>, <<"/", "w">>, <<"/", "w", "/", "s">>, <<"s">>, <<".">>, <<"l">>, <<"/", "w", "/", "l">>, <<"/", "w", "/", "l", "/", "x">>, <<"l", "/", "x">>, <<"x">>, <<"/", "n">>, <<"/", "b", "/", "n">>, <<"/">>}

\* blocked_paths vectors as the tests pass them
BlockedLists == {<<>>, <<<<"/", "b">>>>, <<<<"/", "b">>, <<"/", "b", "/", "x">>>>, <<<<"/", "b", "/", "x">>, <<"/", "b">>>>, <<<<"/", "w", "/", "s">>, <<"/", "b">>>>, <<<<"/", "b", "2">>>>}

\* values of BLOCKED_PATHS the server can be started with
BlockedConfigs == {None, Some(<<>>), Some(<<"/", "b">>), Some(<<"/", "b", "/">>), Some(<<"/", "w", "/", "s">>), Some(<<"/", "b", "/", "x", ";", "/", "b">>), Some(<<"/", "w", "/", "l">>), Some(<<" ", "/", "b", " ", ";", ";", "/", "w", "/", "s">>)}

CheckedWorkingDirs == {<<"/", "w">>, <<"/", "b">>, <<"/">>, <<"s">>, <<>>, <<"/", "n">>, <<"r", "e", "l", "a", "t", "i", "v", "e", "/", "d", "i", "r">>}

\* paths given to LsRequest::validate
LsPaths == TraversalStrings \cup {<<"/", "w", "/", ".", ".", "/", "b">>, <<".", ".", "/", "b">>, <<"/", "w", "/", "l", "/", ".", ".">>, <<"-", ".", ".">>, <<";", ".", ".">>, <<"/", "b", "/", "x">>, <<"/", "w">>, <<"-", "l", "a">>, <<"/", "w", ";", "i", "d">>, <<"-", ";">>, <<"-", ";", ".", ".">>, <<"-", "-">>, <<"-">>, <<"/", "b", ";">>, <<"-", "/", "b">>, <<"l">>, <<"s">>}

\* the calls made, each with the environment it runs in
StringCalls == {[environ |-> Some(<<"/", "b">>), call |-> Pending("validate_argument", <<a>>)] : a \in ArgStrings}
               \cup {[environ |-> Some(<<"/", "b">>), call |-> Pending("validate_not_flag", <<a>>)] : a \in FlagStrings}
               \cup {[environ |-> Some(<<"/", "b">>), call |-> Pending("validate_no_traversal", <<a>>)] : a \in TraversalStrings}
               \cup {[environ |-> Some(<<"/", "b">>), call |-> Pending("validate_env_var", <<n, v>>)] : n \in EnvNames, v \in EnvValues}
               \cup {[environ |-> Some(<<"/", "b">>), call |-> Pending("validate_ls", <<a>>)] : a \in LsPaths}

PathCalls == {[environ |-> e, call |-> Pending("validate_path", <<a>>)] : e \in BlockedConfigs, a \in CheckedPaths}
             \cup {[environ |-> e, call |-> Pending("validate_path_with_working_dir", <<a, wd>>)] : e \in BlockedConfigs, a \in CheckedPaths, wd \in CheckedWorkingDirs}

ImplCalls == {[environ |-> Some(<<"/", "b">>), call |-> Pending("find_blocked_path_impl", <<a, bl>>)] : a \in CheckedPaths, bl \in BlockedLists}

\* the call returns with the value the function computes
Return(fn, value) == /\ vcall.fn = fn
                     /\ ~vcall.returned
                     /\ vcall' = [vcall EXCEPT !.returned = TRUE, !.ret = value]
                     /\ UNCHANGED <<req, pc, calls, child, watcher, chan, execResult, output, response, environ, pid, lazy, thread>>

CallValidateArgument == Return("validate_argument", validate_argument(vcall.args[1]))

CallValidateNotFlag == Return("validate_not_flag", validate_not_flag(vcall.args[1]))

CallValidateNoTraversal == Return("validate_no_traversal", validate_no_traversal(vcall.args[1]))

CallValidateEnvVar == Return("validate_env_var", validate_env_var(vcall.args[1], vcall.args[2]))

CallValidateLs == Return("validate_ls", validate_ls([tool |-> "ls", path |-> vcall.args[1]]))

CallFindBlockedPathImpl == Return("find_blocked_path_impl", find_blocked_path_impl(vcall.args[1], vcall.args[2]))

CallValidatePath == Return("validate_path", validate_path(vcall.args[1]))

CallValidatePathWithWorkingDir == Return("validate_path_with_working_dir", validate_path_with_working_dir(vcall.args[1], vcall.args[2]))

----------------------------------------------------------------------------
(* The LazyLock cell of BLOCKED_PATHS under concurrent validator calls,   *)
(* security.rs lines 18-25                                                *)

MaxThreads == 2

Threads == 1..MaxThreads

\* the paths the concurrent calls validate
LazyPaths == {<<"/", "b", "/", "x">>, <<"/", "w">>}

\* the cell before its first use
NoLazy == [state |-> "Incomplete", value |-> <<>>, inits |-> 0]

NoThreads == [t \in Threads |-> [pc |-> "idle", path |-> <<>>, seen |-> None, ret |-> Ok]]

\* a guard that lets in every caller that finds the cell not yet complete
OnceUnguarded(l) == l.state # "Complete"

\* Once::call_once: the closure is run by the one caller that finds the cell incomplete
OnceIncomplete(l) == l.state = "Incomplete"

\* a thread calls validate_path(path), which goes on to find_blocked_path
ThreadCall == \E t \in Threads, p \in LazyPaths :
    /\ thread[t].pc = "idle"
    /\ thread' = [thread EXCEPT ![t] = [pc |-> "deref", path |-> p, seen |-> None, ret |-> Ok]]
    /\ UNCHANGED lazy
    /\ UNCHANGED <<req, pc, calls, child, watcher, chan, execResult, output, response, environ, vcall, pid>>

\* &BLOCKED_PATHS on a cell that was never used: LazyLock::force enters the
\* Once; a caller that finds the Once running waits
LazyForce == \E t \in Threads :
    /\ thread[t].pc = "deref"
    /\ OnceIncomplete(lazy)
    /\ lazy' = [lazy EXCEPT !.state = "Running"]
    /\ thread' = [thread EXCEPT ![t].pc = "init"]
    /\ UNCHANGED <<req, pc, calls, child, watcher, chan, execResult, output, response, environ, vcall, pid>>

\* the initialiser closure runs and its vector is stored in the cell
LazyInit == \E t \in Threads :
    /\ thread[t].pc = "init"
    /\ lazy' = [lazy EXCEPT !.value = BLOCKED_PATHS, !.inits = @ + 1]
    /\ thread' = [thread EXCEPT ![t].pc = "publish"]
    /\ UNCHANGED <<req, pc, calls, child, watcher, chan, execResult, output, response, environ, vcall, pid>>

\* the Once is marked complete, which releases the callers that wait
LazyComplete == \E t \in Threads :
    /\ thread[t].pc = "publish"
    /\ lazy' = [lazy EXCEPT !.state = "Complete"]
    /\ thread' = [thread EXCEPT ![t].pc = "deref"]
    /\ UNCHANGED <<req, pc, calls, child, watcher, chan, execResult, output, response, environ, vcall, pid>>

\* &BLOCKED_PATHS on a complete cell yields the reference to the vector
LazyDeref == \E t \in Threads :
    /\ thread[t].pc = "deref"
    /\ lazy.state = "Complete"
    /\ thread' = [thread EXCEPT ![t].pc = "reading"]
    /\ UNCHANGED lazy
    /\ UNCHANGED <<req, pc, calls, child, watcher, chan, execResult, output, response, environ, vcall, pid>>

\* find_blocked_path_impl reads the vector and validate_path has its result
ThreadRead == \E t \in Threads :
    /\ thread[t].pc = "reading"
    /\ LET blocked == find_blocked_path_impl(thread[t].path, lazy.value)
       IN thread' = [thread EXCEPT ![t].pc = "done", ![t].seen = Some(lazy.value), ![t].ret = IF IsSome(blocked) THEN Err("BlockedPath", Unwrap(blocked)) ELSE Ok]
    /\ UNCHANGED lazy
    /\ UNCHANGED <<req, pc, calls, child, watcher, chan, execResult, output, response, environ, vcall, pid>>

\* validate_path returns to its caller, which may call again
ThreadReturn == \E t \in Threads :
    /\ thread[t].pc = "done"
    /\ thread' = [thread EXCEPT ![t].pc = "idle"]
    /\ UNCHANGED lazy
    /\ UNCHANGED <<req, pc, calls, child, watcher, chan, execResult, output, response, environ, vcall, pid>>

----------------------------------------------------------------------------
(* Specifications *)

Init == /\ req = make_request_with_order(None, None, None, None, None, None, None)
        /\ pc = "idle"
        /\ calls = 0
        /\ child = NoChild
        /\ watcher = NoWatcher
        /\ chan = None
        /\ execResult = None
        /\ output = <<>>
        /\ response = <<>>
        /\ environ = Some(<<"/", "b">>)
        /\ vcall = NoCall
        /\ pid = NoPid
        /\ lazy = NoLazy
        /\ thread = NoThreads

\* a request arrives at the idle server
Receive == /\ pc = "idle"
           /\ \E r \in ToolRequests : RunTool(r)

Next == \/ Receive
        \/ ExecuteLs
        \/ ExecuteGit
        \/ ChildExit
        \/ WatcherWait
        \/ WatcherSend
        \/ WatcherEnd
        \/ PidReused
        \/ RecvMessage
        \/ RecvTimeout
        \/ KillProcess
        \/ JoinWatcher
        \/ Transform

Spec == Init /\ [][Next]_vars

\* the tool flow under the scheduling the code can rely on: the calling
\* thread and the watcher thread keep running and the deadline of
\* recv_timeout passes; nothing obliges the child to exit on its own or
\* the kill helper to deliver its signal
LiveRequests == {r \in ToolRequests : r.grep_pattern = None /\ r.head = None /\ r.tail = None /\ r.timeout_ms = Some(100) /\ r.env = None}

ReceiveLive == /\ pc = "idle"
               /\ \E r \in LiveRequests : RunTool(r)

NextLive == \/ ReceiveLive
            \/ ExecuteLs
            \/ ExecuteGit
            \/ ChildExit
            \/ WatcherWait
            \/ WatcherSend
            \/ WatcherEnd
            \/ PidReused
            \/ RecvMessage
            \/ RecvTimeout
            \/ KillProcess
            \/ JoinWatcher
            \/ Transform

Fairness == /\ WF_vars(ExecuteLs) /\ WF_vars(ExecuteGit) /\ WF_vars(WatcherWait) /\ WF_vars(WatcherSend) /\ WF_vars(WatcherEnd)
            /\ WF_vars(RecvMessage) /\ WF_vars(RecvTimeout) /\ WF_vars(KillProcess) /\ WF_vars(JoinWatcher) /\ WF_vars(Transform)

SpecLive == Init /\ [][NextLive]_vars /\ Fairness

\* the validators alone, on bounded arguments
InitValidators == /\ \/ \E c \in StringCalls : environ = c.environ /\ vcall = c.call
                     \/ \E c \in PathCalls : environ = c.environ /\ vcall = c.call
                     \/ \E c \in ImplCalls : environ = c.environ /\ vcall = c.call
                  /\ req = make_request_with_order(None, None, None, None, None, None, None)
                  /\ pc = "idle"
                  /\ calls = 0
                  /\ child = NoChild
                  /\ watcher = NoWatcher
                  /\ chan = None
                  /\ execResult = None
                  /\ output = <<>>
                  /\ response = <<>>
                  /\ pid = NoPid
                  /\ lazy = NoLazy
                  /\ thread = NoThreads

NextValidators == \/ CallValidateArgument
                  \/ CallValidateNotFlag
                  \/ CallValidateNoTraversal
                  \/ CallValidateEnvVar
                  \/ CallValidateLs
                  \/ CallFindBlockedPathImpl
                  \/ CallValidatePath
                  \/ CallValidatePathWithWorkingDir

SpecValidators == InitValidators /\ [][NextValidators]_vars

\* the pipeline alone, on the texts and requests of the unit tests' shape
InitPipeline == /\ req \in PipelineRequests
                /\ output \in Texts
                /\ pc = "transform"
                /\ calls = 0
                /\ child = NoChild
                /\ watcher = NoWatcher
                /\ chan = None
                /\ execResult = None
                /\ response = <<>>
                /\ environ = Some(<<"/", "b">>)
                /\ vcall = NoCall
                /\ pid = NoPid
                /\ lazy = NoLazy
                /\ thread = NoThreads

NextPipeline == Transform

SpecPipeline == InitPipeline /\ [][NextPipeline]_vars

\* concurrent validator calls in a process started with any of the configured environments
InitLazy == /\ environ \in BlockedConfigs
            /\ lazy = NoLazy
            /\ thread = NoThreads
            /\ req = make_request_with_order(None, None, None, None, None, None, None)
            /\ pc = "idle"
            /\ calls = 0
            /\ child = NoChild
            /\ watcher = NoWatcher
            /\ chan = None
            /\ execResult = None
            /\ output = <<>>
            /\ response = <<>>
            /\ vcall = NoCall
            /\ pid = NoPid

NextLazy == \/ ThreadCall
            \/ LazyForce
            \/ LazyInit
            \/ LazyComplete
            \/ LazyDeref
            \/ ThreadRead
            \/ ThreadReturn

SpecLazy == InitLazy /\ [][NextLazy]_vars

----------------------------------------------------------------------------
(* Properties of the tool flow *)

\* C1: when validate() returns an error, no subprocess is spawned, the
\* executor is never invoked, and the string returned is exactly the
\* rendered message of that error.
C1_ValidationFailureStops == (pc # "idle" /\ validate(req) # Ok) => /\ pc = "returned"
                                                                     /\ calls = 0
                                                                     /\ child.state = "none"
                                                                     /\ response = to_string(validate(req))

C1_Witness == /\ pc = "returned"
              /\ req.inner.tool = "ls"
              /\ validate(req) = Err("PathTraversal", <<"/", "w", "/", ".", ".", "/", "b">>)
              /\ calls = 0
              /\ StartsWith(response, <<"E", "r", "r", "o", "r", ":", " ", "P", "a", "t", "h", " ", "'", "/", "w", "/", ".", ".", "/", "b", "'", " ", "c", "o", "n", "t", "a", "i", "n", "s", " ", "'", ".", ".", "'">>)

DangerousNames(r) == IF r.env = None THEN {} ELSE {kv[1] : kv \in {x \in Unwrap(r.env) : is_dangerous_env_var(x[1])}}

\* C2: no child process is ever started with a dangerous variable taken
\* from the request's env: a request that names one spawns nothing and,
\* having passed the checks of its tool, is answered with DangerousEnvVar.
C2_DangerousEnvRejected == /\ \A kv \in child.env : ~is_dangerous_env_var(kv[1])
                           /\ (pc # "idle" /\ DangerousNames(req) # {}) => /\ child.state = "none"
                                                                            /\ calls = 0
                                                                            /\ (pc = "returned" /\ validate(req) = Ok) => \E n \in DangerousNames(req) : response = to_string(Err("DangerousEnvVar", n))

\* C3: a request that passes its own validation and carries a working_dir
\* not starting with '/' spawns no subprocess and returns the
\* RelativeWorkingDir error.
C3_RelativeWorkingDirRejected == (pc # "idle" /\ validate(req) = Ok /\ IsSome(req.working_dir) /\ ~StartsWith(Unwrap(req.working_dir), <<"/">>)) => /\ child.state = "none"
                                                                                                                                                 /\ (pc = "returned" => response = to_string(Err("RelativeWorkingDir", Unwrap(req.working_dir))))

\* C4: the string returned by run_tool is the transformed text of a
\* successful command or begins with "Error: ".
C4_TextOrErrorPrefix == pc = "returned" => \/ StartsWith(response, <<"E", "r", "r", "o", "r", ":", " ">>)
                                           \/ /\ IsSome(execResult)
                                              /\ Unwrap(execResult).tag = "Success"
                                              /\ response = transform_output(req, Unwrap(execResult).text)

\* C5: an execution classified as Timeout is answered with the fixed
\* sentinel, whatever the pipeline fields of the request.
C5_TimeoutSentinel == (pc = "returned" /\ execResult = Some(Timeout)) => response = <<"E", "r", "r", "o", "r", ":", " ", "C", "o", "m", "m", "a", "n", "d", " ", "t", "i", "m", "e", "d", " ", "o", "u", "t">>

\* C6: once recv_timeout has timed out, run_command returns only Timeout,
\* and when it returns the watcher has ended and the child is reaped.
C6_TimeoutKillsAndReaps == [][(pc \in {"kill", "join"} /\ pc' \notin {"kill", "join"}) => /\ execResult' = Some(Timeout)
                                                                                          /\ watcher'.state = "done"
                                                                                          /\ child'.state = "reaped"]_vars

C6_Witness == /\ pc = "transform"
              /\ execResult = Some(Timeout)
              /\ child.state = "reaped"
              /\ child.exit = Some(KilledOutcome)

\* C7: every timed run_command that spawned its child eventually returns.
C7_TimedCallReturns == [](pc = "recv" => <>(execResult # None))

\* C20: in the ls adapter, when the context has a working directory and
\* the working-directory-aware check rejects the request path combined with
\* it, execute returns an error string and the listing command is never
\* built or spawned.
C20_WorkingDirRejectionSpawnsNothing == (pc # "idle" /\ req.inner.tool = "ls" /\ validate(req) = Ok /\ IsSome(execution_context(req).working_dir)
                                         /\ validate_path_with_working_dir(req.inner.path, Unwrap(execution_context(req).working_dir)) # Ok) => /\ calls = 0
                                                                                                                                                /\ child.state = "none"
                                                                                                                                                /\ execResult = None
                                                                                                                                                /\ pc \in {"transform", "returned"} => StartsWith(output, <<"E", "r", "r", "o", "r", ":", " ">>)

C20_Witness == /\ pc = "transform"
               /\ req.inner = [tool |-> "ls", path |-> <<"s">>]
               /\ req.working_dir = Some(<<"/", "b">>)
               /\ calls = 0
               /\ child.state = "none"
               /\ output = <<"E", "r", "r", "o", "r", ":", " ", "E", "r", "r", "o", "r", ":", " ", "R", "e", "a", "d", "i", "n", "g", " ", "p", "a", "t", "h", " ", "'", "/", "b", "'", " ", "i", "s", " ", "n", "o", "t", " ", "a", "l", "l", "o", "w", "e", "d">>

----------------------------------------------------------------------------
(* Properties of the transform pipeline *)

\* the plan as the request states it, with the documented default
StatedPlan(r) == IF r.transform_order = None THEN <<"Grep", "Sort", "Unique", "Head", "Tail">> ELSE Unwrap(r.transform_order)

Absent(r, T) == IsSome(r.transform_order) /\ T \notin Range(Unwrap(r.transform_order))

Unset(r, T) == CASE T = "Grep" -> [r EXCEPT !.grep_pattern = None] [] T = "Sort" -> [r EXCEPT !.sort = None] [] T = "Unique" -> [r EXCEPT !.unique = None] [] T = "Head" -> [r EXCEPT !.head = None] [] T = "Tail" -> [r EXCEPT !.tail = None]

\* left-to-right composition of the stage functions over the first k stages of a plan
RECURSIVE Compose(_, _, _, _)
Compose(r, plan, k, text) == IF k = 0 THEN text ELSE ApplyStage(r, plan[k], Compose(r, plan, k - 1, text))

NoErrorStage(r, plan, text) == \A k \in 1..Len(plan) : ~StartsWith(Compose(r, plan, k, text), <<"E", "r", "r", "o", "r", ":">>)

\* C8: a transformation absent from the plan is never applied: the result is
\* the one obtained with that transformation's parameters unset, and an
\* explicit empty plan returns the text unchanged.
C8_AbsentStageIsInert == pc = "returned" => /\ \A T \in Transformation : Absent(req, T) => response = transform_output(Unset(req, T), output)
                                          /\ (req.transform_order = Some(<<>>) => response = output)

C8_Witness == /\ pc = "returned"
              /\ req.transform_order = Some(<<"Head">>)
              /\ req.head = Some(2)
              /\ req.sort = Some(TRUE)
              /\ req.grep_pattern = Some(<<"1">>)
              /\ req.unique = None
              /\ req.tail = None
              /\ output = <<"l", "i", "n", "e", "3", "\n", "l", "i", "n", "e", "1", "\n", "l", "i", "n", "e", "2">>
              /\ response = <<"l", "i", "n", "e", "3", "\n", "l", "i", "n", "e", "1">>

\* C9: the stages are applied strictly in plan order (the default order
\* Grep, Sort, Unique, Head, Tail when transform_order is unset): when no
\* stage result begins with "Error:", the result is the left-to-right
\* composition of the stage functions.
C9_StagesInPlanOrder == pc = "returned" => LET plan == StatedPlan(req) IN NoErrorStage(req, plan, output) => response = Compose(req, plan, Len(plan), output)

C9_Witness == /\ pc = "returned"
              /\ req.transform_order = Some(<<"Head", "Grep">>)
              /\ req.head = Some(2)
              /\ req.grep_pattern = Some(<<"1">>)
              /\ req.invert_grep = None
              /\ output = <<"l", "i", "n", "e", "1", "\n", "l", "i", "n", "e", "2", "\n", "l", "i", "n", "e", "3", "\n", "l", "i", "n", "e", "4">>
              /\ response = <<"l", "i", "n", "e", "1">>

FirstGrep(plan) == CHOOSE i \in 1..Len(plan) : plan[i] = "Grep" /\ \A j \in 1..(i - 1) : plan[j] # "Grep"

\* C10: with Grep in the plan and a pattern that does not compile, the
\* result begins with "Error:" and is the result of a stage up to and
\* including the first Grep: no later stage is applied to it.
C10_InvalidPatternStops == (pc = "returned" /\ IsSome(req.grep_pattern) /\ ~RegexCompiles(Unwrap(req.grep_pattern)) /\ "Grep" \in Range(StatedPlan(req))) => /\ StartsWith(response, <<"E", "r", "r", "o", "r", ":">>)
                                                                                                                                                        /\ \E k \in 1..FirstGrep(StatedPlan(req)) : response = Compose(req, StatedPlan(req), k, output)

C10_Witness == /\ pc = "returned"
               /\ req.grep_pattern = Some(<<"[", "1">>)
               /\ req.transform_order = Some(<<"Grep", "Head">>)
               /\ req.head = Some(0)
               /\ output = <<"c", "h", "e", "r", "r", "y", "\n", "a", "p", "p", "l", "e", "\n", "b", "a", "n", "a", "n", "a">>
               /\ StartsWith(response, <<"E", "r", "r", "o", "r", ":", " ", "I", "n", "v", "a", "l", "i", "d", " ", "g", "r", "e", "p", " ", "p", "a", "t", "t", "e", "r", "n", ":", " ">>)

\* the pipeline's result on text is the result of stage T alone: T is in the
\* plan, every other stage of the plan has its parameter unset, and no
\* stage before T returns early on a text that begins with "Error:"
OnlyStage(r, T, text) == /\ T \in Range(StatedPlan(r))
                         /\ \A U \in Range(StatedPlan(r)) \ {T} : Unset(r, U) = r
                         /\ StatedPlan(r)[1] = T \/ ~StartsWith(text, <<"E", "r", "r", "o", "r", ":">>)

\* the lines of ls that differ from the line just before them, in order
RunHeads(ls) == LET K == {i \in 1..Len(ls) : i = 1 \/ ls[i] # ls[i - 1]} IN [j \in 1..Cardinality(K) |-> ls[CHOOSE i \in K : Cardinality({k \in K : k < i}) = j - 1]]

\* C11: the Unique stage (unique = true) removes only adjacent repeats: the
\* result is the input's lines without every line that equals the line
\* before it, joined by newlines; it has no two adjacent equal lines and
\* keeps the first line of every run, in order.
C11_UniqueDropsAdjacentRepeats == (pc = "returned" /\ req.unique = Some(TRUE) /\ OnlyStage(req, "Unique", output)) => /\ response = Join(RunHeads(Lines(output)), <<"\n">>)
                                                                                                             /\ \A i \in 1..(Len(Lines(response)) - 1) : Lines(response)[i] # Lines(response)[i + 1]

C11_Witness == /\ pc = "returned"
               /\ req.unique = Some(TRUE)
               /\ OnlyStage(req, "Unique", output)
               /\ output = <<"a", "\n", "a", "\n", "b", "\n", "b", "\n", "b", "\n", "a">>
               /\ response = <<"a", "\n", "b", "\n", "a">>

\* C12: the Tail stage with count n returns the text unchanged when n is at
\* least the number of lines, and otherwise exactly the last n lines in
\* their original order.
C12_TailKeepsLastLines == (pc = "returned" /\ IsSome(req.tail) /\ OnlyStage(req, "Tail", output)) => LET ls == Lines(output) n == Unwrap(req.tail) IN IF n >= Len(ls) THEN response = output ELSE response = Join([i \in 1..n |-> ls[Len(ls) - n + i]], <<"\n">>)

C12_Witness == /\ pc = "returned"
               /\ req.tail = Some(2)
               /\ OnlyStage(req, "Tail", output)
               /\ output = <<"l", "i", "n", "e", "1", "\n", "l", "i", "n", "e", "2", "\n", "l", "i", "n", "e", "3", "\n", "l", "i", "n", "e", "4">>
               /\ response = <<"l", "i", "n", "e", "3", "\n", "l", "i", "n", "e", "4">>

----------------------------------------------------------------------------
(* Properties of the validators *)

\* the characters the blacklist is stated to hold
Blacklisted == {";", "|", "&", "$", "BACKTICK", "(", ")", "{", "}", "[", "]", "<", ">", "\n", "\r", "'", "\"", "\\", "*", "?", "!", "#", "NUL"}

HasBlacklisted(s) == \E i \in 1..Len(s) : s[i] \in Blacklisted

Returned(fn) == vcall.fn = fn /\ vcall.returned

\* C13: validate_argument rejects a string with ShellInjection carrying
\* that string if and only if the string contains a character of the
\* blacklist; every other string is accepted.
C13_ValidateArgument == Returned("validate_argument") => LET s == vcall.args[1] IN IF HasBlacklisted(s) THEN vcall.ret = Err("ShellInjection", s) ELSE vcall.ret = Ok

C13_Witness == /\ Returned("validate_argument")
               /\ vcall.args = <<<<"a", ";">>>>
               /\ vcall.ret = Err("ShellInjection", <<"a", ";">>)

\* C14: validate_not_flag rejects a string with FlagInjection if and only
\* if it starts with '-' and is neither "-" nor "--".
C14_ValidateNotFlag == Returned("validate_not_flag") => LET s == vcall.args[1] IN IF s # <<>> /\ s[1] = "-" /\ s # <<"-">> /\ s # <<"-", "-">> THEN vcall.ret = Err("FlagInjection", s) ELSE vcall.ret = Ok

C14_Witness == /\ Returned("validate_not_flag")
               /\ vcall.args = <<<<"-", "l", "a">>>>
               /\ vcall.ret = Err("FlagInjection", <<"-", "l", "a">>)

HasDotDot(s) == \E i \in 1..(Len(s) - 1) : s[i] = "." /\ s[i + 1] = "."

\* C15: validate_no_traversal rejects a path with PathTraversal if and only
\* if ".." occurs anywhere in it, and LsRequest::validate makes this check
\* before it resolves the path against the blocked entries: a path with
\* ".." is never answered with BlockedPath, and is answered with
\* PathTraversal unless an earlier check of the adapter rejects it.
C15_TraversalRejected == /\ Returned("validate_no_traversal") => LET s == vcall.args[1] IN IF HasDotDot(s) THEN vcall.ret = Err("PathTraversal", s) ELSE vcall.ret = Ok
                         /\ (Returned("validate_ls") /\ HasDotDot(vcall.args[1])) => LET s == vcall.args[1] IN /\ vcall.ret \in {Err("ShellInjection", s), Err("FlagInjection", s), Err("PathTraversal", s)}
                                                                                                              /\ (validate_argument(s) = Ok /\ validate_not_flag(s) = Ok) => vcall.ret = Err("PathTraversal", s)

C15_Witness == /\ Returned("validate_ls")
               /\ vcall.args = <<<<"/", "w", "/", ".", ".", "/", "b">>>>
               /\ validate_path(<<"/", "w", "/", ".", ".", "/", "b">>) = Err("BlockedPath", <<"/", "b">>)
               /\ vcall.ret = Err("PathTraversal", <<"/", "w", "/", ".", ".", "/", "b">>)

LowerLetters == <<"a", "b", "c", "d", "e", "f", "g", "h", "i", "j", "k", "l", "m", "n", "o", "p", "q", "r", "s", "t", "u", "v", "w", "x", "y", "z">>

UpperLetters == <<"A", "B", "C", "D", "E", "F", "G", "H", "I", "J", "K", "L", "M", "N", "O", "P", "Q", "R", "S", "T", "U", "V", "W", "X", "Y", "Z">>

UpperOf(c) == IF \E i \in 1..26 : LowerLetters[i] = c THEN UpperLetters[CHOOSE i \in 1..26 : LowerLetters[i] = c] ELSE c

\* the name, letters taken as capitals, equals or starts with an entry of the dangerous list
NameIsDangerous(name) == \E k \in 1..Len(DANGEROUS_ENV_VARS) : LET e == DANGEROUS_ENV_VARS[k] IN Len(name) >= Len(e) /\ \A i \in 1..Len(e) : UpperOf(name[i]) = e[i]

\* C16: validate_env_var(name, value) returns DangerousEnvVar(name) exactly
\* when the upper-cased name equals or starts with an entry of the dangerous
\* list; otherwise ShellInjection(name) if the name holds a blacklisted
\* character; otherwise ShellInjection(value) if the value does; otherwise Ok.
C16_ValidateEnvVar == Returned("validate_env_var") => LET name == vcall.args[1] value == vcall.args[2] IN vcall.ret = IF NameIsDangerous(name) THEN Err("DangerousEnvVar", name) ELSE IF HasBlacklisted(name) THEN Err("ShellInjection", name) ELSE IF HasBlacklisted(value) THEN Err("ShellInjection", value) ELSE Ok

C16_Witness == /\ Returned("validate_env_var")
               /\ vcall.args = <<<<"l", "d", "_", "p", "r", "e", "l", "o", "a", "d">>, <<"s", "a", "f", "e", "_", "v", "a", "l", "u", "e">>>>
               /\ vcall.ret = Err("DangerousEnvVar", <<"l", "d", "_", "p", "r", "e", "l", "o", "a", "d">>)

\* the path the blocked entries are compared with: the canonical form when the path exists, the path as given otherwise
CanonicalOrAsIs(p) == IF Canonicalize(p) = None THEN p ELSE Unwrap(Canonicalize(p))

\* exact-or-under: p equals B, or starts with B followed by the separator
MatchesEntry(p, B) == p = B \/ (Len(p) > Len(B) /\ SubSeq(p, 1, Len(B)) = B /\ p[Len(B) + 1] = "/")

\* C17: blocked-path matching is exact-or-under, and of several matching
\* entries the first in configuration order is returned.
C17_ExactOrUnder == Returned("find_blocked_path_impl") => LET path == vcall.args[1]
                                                              bl == vcall.args[2]
                                                              p == CanonicalOrAsIs(IF path # <<>> /\ path[1] = "/" THEN path ELSE PathJoin(Unwrap(CurrentDir), path))
                                                              hits == {i \in 1..Len(bl) : MatchesEntry(p, bl[i])}
                                                          IN IF hits = {} THEN vcall.ret = None ELSE \E i \in hits : (\A j \in hits : i <= j) /\ vcall.ret = Some(bl[i])

C17_Witness == /\ Returned("find_blocked_path_impl")
               /\ vcall.args = <<<<"/", "b", "2", "/", "x">>, <<<<"/", "b">>>>>>
               /\ vcall.ret = None

\* the place in the file system a path names: symlinks followed from the
\* current directory; the components as given when the path does not exist
Location(p) == LET a == IF p # <<>> /\ p[1] = "/" THEN p ELSE PathJoin(Unwrap(CurrentDir), p) w == Walk(Components(a), <<>>) IN IF w = None THEN Components(a) ELSE Unwrap(w)

IsAtOrUnder(loc, base) == Len(loc) >= Len(base) /\ SubSeq(loc, 1, Len(base)) = base

\* C18: for every configured blocked entry B, a path that names B or a
\* location under B, literally, relative to the current directory or
\* through a symlink, is rejected by validate_path with BlockedPath.
C18_BlockedPathAlwaysRejected == Returned("validate_path") => \A i \in 1..Len(BLOCKED_PATHS) : IsAtOrUnder(Location(vcall.args[1]), Location(BLOCKED_PATHS[i])) => vcall.ret.kind = "BlockedPath"

\* C19: validate_path_with_working_dir fails with RelativeWorkingDir when
\* working_dir does not start with '/'; otherwise a relative path is
\* resolved against working_dir, an absolute one is taken as it is, and the
\* call fails with BlockedPath exactly when the resolved path equals or is
\* under a blocked entry.
C19_WorkingDirCheck == Returned("validate_path_with_working_dir") => LET path == vcall.args[1]
                                                                         wd == vcall.args[2]
                                                                         p == CanonicalOrAsIs(IF path # <<>> /\ path[1] = "/" THEN path ELSE PathJoin(wd, path))
                                                                     IN IF wd = <<>> \/ wd[1] # "/"
                                                                        THEN vcall.ret = Err("RelativeWorkingDir", wd)
                                                                        ELSE IF \E i \in 1..Len(BLOCKED_PATHS) : MatchesEntry(p, BLOCKED_PATHS[i])
                                                                             THEN vcall.ret.kind = "BlockedPath" /\ vcall.ret.value \in Range(BLOCKED_PATHS)
                                                                             ELSE vcall.ret = Ok

C19_Witness == /\ Returned("validate_path_with_working_dir")
               /\ environ = Some(<<"/", "b">>)
               /\ vcall.args = <<<<"s">>, <<"/", "b">>>>
               /\ vcall.ret = Err("BlockedPath", <<"/", "b">>)

----------------------------------------------------------------------------
(* Properties of the git adapter and of the execution context *)

\* the subcommands the git adapter is stated to allow
StatedSubcommands == {<<"s", "t", "a", "t", "u", "s">>, <<"a", "d", "d">>, <<"c", "o", "m", "m", "i", "t">>, <<"c", "h", "e", "c", "k", "o", "u", "t">>}

\* C21: a git request whose subcommand is not one of status, add, commit,
\* checkout is rejected, and the git program is never invoked for it.
C21_DisallowedSubcommandRejected == (pc # "idle" /\ req.inner.tool = "git" /\ req.inner.subcommand \notin StatedSubcommands) =>
                                        /\ pc = "returned"
                                        /\ calls = 0
                                        /\ child.state = "none"
                                        /\ StartsWith(response, <<"E", "r", "r", "o", "r", ":", " ">>)
                                        /\ Contains(response, <<"S", "u", "b", "c", "o", "m", "m", "a", "n", "d", " ", "'">> \o req.inner.subcommand \o <<"'", " ", "i", "s", " ", "n", "o", "t", " ", "a", "l", "l", "o", "w", "e", "d">>)

C21_Witness == /\ pc = "returned"
               /\ req.inner = [tool |-> "git", subcommand |-> <<"p", "u", "s", "h">>, args |-> <<>>]
               /\ calls = 0
               /\ StartsWith(response, <<"E", "r", "r", "o", "r", ":", " ", "'", "S", "u", "b", "c", "o", "m", "m", "a", "n", "d", " ", "'", "p", "u", "s", "h", "'", " ", "i", "s", " ", "n", "o", "t", " ", "a", "l", "l", "o", "w", "e", "d", ".", " ", "A", "l", "l", "o", "w", "e", "d", " ", "s", "u", "b", "c", "o", "m", "m", "a", "n", "d", "s", ":", " ", "s", "t", "a", "t", "u", "s", ",", " ", "a", "d", "d", ",", " ", "c", "o", "m", "m", "i", "t", ",", " ", "c", "h", "e", "c", "k", "o", "u", "t", "'">>)

\* C22: for a git request with an allowed subcommand, an argument with a
\* blacklisted character fails the request with ShellInjection carrying the
\* first such argument and git is not run; otherwise the command run is git
\* with the subcommand first and then the arguments as given, in order.
C22_GitArgumentsChecked == (pc # "idle" /\ req.inner.tool = "git" /\ req.inner.subcommand \in StatedSubcommands) =>
                               LET args == req.inner.args
                                   bad == {i \in 1..Len(args) : HasBlacklisted(args[i])}
                               IN IF bad # {}
                                  THEN /\ pc = "returned"
                                       /\ calls = 0
                                       /\ child.state = "none"
                                       /\ response = to_string(Err("ShellInjection", args[CHOOSE i \in bad : \A j \in bad : i <= j]))
                                  ELSE /\ pc # "execute" => calls = 1
                                       /\ child.state # "none" => (child.program = <<"g", "i", "t">> /\ child.args = <<req.inner.subcommand>> \o args)

C22_Witness == /\ pc = "returned"
               /\ req.inner = [tool |-> "git", subcommand |-> <<"s", "t", "a", "t", "u", "s">>, args |-> <<<<"f">>, <<";", " ", "i", "d">>, <<"a", "|", "b">>>>]
               /\ calls = 0
               /\ response = to_string(Err("ShellInjection", <<";", " ", "i", "d">>))

\* C24: the execution context of a request always carries a timeout,
\* timeout_ms when the request states it and 180000 otherwise, and the
\* request's working_dir and env unchanged; so every child is run by the
\* timed path, with a watcher thread, in that directory and environment.
C24_ContextAlwaysTimed == pc # "idle" =>
                              /\ execution_context(req).timeout = Some(IF req.timeout_ms = None THEN 180000 ELSE req.timeout_ms[1])
                              /\ execution_context(req).working_dir = req.working_dir
                              /\ execution_context(req).env = req.env
                              /\ child.state # "none" => (watcher.state # "none" /\ child.dir = req.working_dir /\ child.env = IF req.env = None THEN {} ELSE req.env[1])
                              /\ execResult # None => ~StartsWith(Unwrap(execResult).text, <<"F", "a", "i", "l", "e", "d", " ", "t", "o", " ", "e", "x", "e", "c", "u", "t", "e", " ", "c", "o", "m", "m", "a", "n", "d">>)

C24_Witness == /\ pc = "recv"
               /\ req.timeout_ms = None
               /\ execution_context(req).timeout = Some(180000)
               /\ child.state = "running"
               /\ watcher.state = "waiting"

----------------------------------------------------------------------------
(* Further properties of the validators, the executor and the pipeline *)

LooksLikeFlag(s) == s # <<>> /\ s[1] = "-" /\ s # <<"-">> /\ s # <<"-", "-">>

\* C27: LsRequest::validate reports the first failing rule in the order
\* shell injection, flag injection, traversal, blocked path: a blacklisted
\* character gives ShellInjection whatever else the path holds, a flag-like
\* path without one gives FlagInjection even with "..", and the blocked-path
\* lookup decides only for paths that passed the three earlier rules.
C27_FirstFailingRuleWins == Returned("validate_ls") =>
                                LET s == vcall.args[1]
                                IN /\ HasBlacklisted(s) => vcall.ret = Err("ShellInjection", s)
                                   /\ (~HasBlacklisted(s) /\ LooksLikeFlag(s)) => vcall.ret = Err("FlagInjection", s)
                                   /\ (~HasBlacklisted(s) /\ ~LooksLikeFlag(s) /\ HasDotDot(s)) => vcall.ret = Err("PathTraversal", s)
                                   /\ (~HasBlacklisted(s) /\ ~LooksLikeFlag(s) /\ ~HasDotDot(s)) => vcall.ret = validate_path(s)
                                   /\ vcall.ret.kind = "BlockedPath" => (~HasBlacklisted(s) /\ ~LooksLikeFlag(s) /\ ~HasDotDot(s))

C27_Witness == /\ Returned("validate_ls")
               /\ vcall.args = <<<<"-", ";", ".", ".">>>>
               /\ vcall.ret = Err("ShellInjection", <<"-", ";", ".", ".">>)

\* C26: for a child that exits before the deadline, the timed path gives
\* what the untimed path gives: Success with the child's standard output
\* for exit code zero; otherwise Error with "Error: " and the child's
\* standard error if it is not empty, else its standard output.
C26_TimedEqualsUntimed == (execResult # None /\ Unwrap(execResult).tag # "Timeout" /\ chan # None /\ Unwrap(chan).ok /\ child.exit # None) =>
                              LET e == Unwrap(child.exit)
                              IN execResult = Some(IF e.code = 0 THEN Success(e.stdout) ELSE Error(<<"E", "r", "r", "o", "r", ":", " ">> \o (IF e.stderr # <<>> THEN e.stderr ELSE e.stdout)))

\* C29: with the default plan, tail unset, head = N and a grep pattern that
\* is unset or compiles, the text returned by transform_output has at most
\* N lines, whatever the input text.
C29_HeadBoundsLines == (pc = "returned" /\ req.transform_order = None /\ req.tail = None /\ IsSome(req.head) /\ (req.grep_pattern = None \/ RegexCompiles(Unwrap(req.grep_pattern)))) => Len(Lines(response)) <= Unwrap(req.head)

C28_KillOnlyOwnChild == pid.signalled # "other"

\* C23: the cell of BLOCKED_PATHS is initialised at most once and never
\* modified once complete; every concurrent validator call reads the one
\* value parsed from the environment, and reads only when the cell is
\* complete and no initialiser is at work.
C23_StateOk == /\ lazy.inits <= 1
               /\ \A t \in Threads : thread[t].seen # None => (lazy.state = "Complete" /\ thread[t].seen = Some(BLOCKED_PATHS))
               /\ \A t \in Threads : thread[t].pc = "reading" => (lazy.state = "Complete" /\ \A u \in Threads : thread[u].pc \notin {"init", "publish"})

C23_StepOk == lazy.state = "Complete" => lazy' = lazy

C23_InitialisedOnceThenReadOnly == [](C23_StateOk) /\ [][C23_StepOk]_vars

C23_Witness == /\ environ = Some(<<" ", "/", "b", " ", ";", ";", "/", "w", "/", "s">>)
               /\ lazy = [state |-> "Complete", value |-> <<<<"/", "b">>, <<"/", "w", "/", "s">>>>, inits |-> 1]
               /\ \A t \in Threads : thread[t].pc = "done" /\ thread[t].seen = Some(lazy.value)
               /\ thread[1].ret = Err("BlockedPath", <<"/", "b">>)
               /\ thread[2].ret = Ok

====
